---- MODULE Spec2Model ----
(***************************************************************************)
(* A model of the scoring API: the schema engine of api.py (field          *)
(* validators, BaseModel, the request schemas), the authenticator and the  *)
(* dispatcher (check_auth, method_handler, MainHTTPHandler.do_POST), and   *)
(* the retrying store client of store.py (trying_factory, RedisStore).     *)
(*                                                                         *)
(* JSON values are records [type, text, keys, items]:                      *)
(*   type  the Python type name of the decoded value                       *)
(*   text  str(value) as a tuple of characters (str, int, bool)            *)
(*   keys  the keys of a dict, items the elements of a list or the values  *)
(*         of a dict (parallel to keys)                                    *)
(* A mapping handed to a schema as keyword data is a function from key     *)
(* names to such values.                                                   *)
(***************************************************************************)
EXTENDS Integers, Sequences, FiniteSets, TLC

VARIABLES
    now,        \* what datetime.datetime.now() reads: [year, stamp]
    vpc,        \* schema engine: "new" | "built" | "rendered" | "checked"
    vcls,       \* schema engine: the class being instantiated
    vdata,      \* schema engine: the keyword data handed to the class
    vobj,       \* schema engine: the object BaseModel.__init__ leaves (or the raise)
    vmsg,       \* schema engine: ValidationError.get_message() of vobj
    vcall,      \* schema engine: the last direct is_valid call [kind, value, result]
    redis,      \* store: what the Redis server holds, key -> [present, text]
    spc,        \* store: "idle" | "trying" | "returned" | "raised"
    scall,      \* store: the RedisStore call in progress [op, key, data]
    count,      \* store: wrap's count of caught errors
    attempts,   \* store: what each invocation of the wrapped function met
    sleeps,     \* store: the time.sleep arguments of the call, in order
    sresult,    \* store: what the call returned or raised [kind, value]
    istore,     \* handler: the store behind get_interests [up, ids]
    hpc,        \* handler: "idle" | "responded"
    hreq,       \* handler: the POST being answered [path, parsed, body]
    hreply,     \* handler: the JSON written back [code, key, payload]
    hctx,       \* handler: the context dict when do_POST logs it
    hcalls      \* handler: the functions method_handler reached, in order

vvars == <<vpc, vcls, vdata, vobj, vmsg, vcall>>
svars == <<redis, spc, scall, count, attempts, sleeps, sresult>>
hvars == <<istore, hpc, hreq, hreply, hctx, hcalls>>
vars == <<now, vvars, svars, hvars>>

(***************************************************************************)
(* JSON values                                                             *)
(***************************************************************************)
None == [type |-> "NoneType", text |-> <<>>, keys |-> <<>>, items |-> <<>>]
JStr(chars) == [type |-> "str", text |-> chars, keys |-> <<>>, items |-> <<>>]
JInt(digits) == [type |-> "int", text |-> digits, keys |-> <<>>, items |-> <<>>]
JBool(b) ==
    [type |-> "bool", text |-> IF b THEN <<"T", "r", "u", "e">> ELSE <<"F", "a", "l", "s", "e">>,
     keys |-> <<>>, items |-> <<>>]
JList(elems) == [type |-> "list", text |-> <<>>, keys |-> <<>>, items |-> elems]
JDict(ks, vs) == [type |-> "dict", text |-> <<>>, keys |-> ks, items |-> vs]

\* bool(value): Python truthiness of a decoded JSON value
Truthy(v) ==
    CASE v.type = "NoneType" -> FALSE
      [] v.type = "str" -> v.text # <<>>
      [] v.type = "int" -> v.text # <<"0">>
      [] v.type = "bool" -> v.text = <<"T", "r", "u", "e">>
      [] v.type = "list" -> v.items # <<>>
      [] v.type = "dict" -> v.keys # <<>>

\* isinstance(value, int): bool is a subclass of int
IsInstanceInt(v) == v.type \in {"int", "bool"}

\* dict.get(name, None) on a mapping
Get(data, name) == IF name \in DOMAIN data THEN data[name] ELSE None

Digits == <<"0", "1", "2", "3", "4", "5", "6", "7", "8", "9">>
IsDigit(c) == \E i \in 1..Len(Digits) : Digits[i] = c
DigitVal(c) == (CHOOSE i \in 1..Len(Digits) : Digits[i] = c) - 1

(***************************************************************************)
(* Program constants                                                       *)
(***************************************************************************)
OK == 200
BAD_REQUEST == 400
FORBIDDEN == 403
NOT_FOUND == 404
INVALID_REQUEST == 422
INTERNAL_ERROR == 500
ERRORS == {BAD_REQUEST, FORBIDDEN, NOT_FOUND, INVALID_REQUEST, INTERNAL_ERROR}
ADMIN_SCORE == 42
DELTA_YEAR == 70
REQUIRED_PAIR == <<{"last_name", "first_name"}, {"birthday", "gender"}, {"email", "phone"}>>

(***************************************************************************)
(* Field validators                                                        *)
(* is_valid answers "true" or "false", or "raise" when the call leaves     *)
(* with an exception instead of returning.                                 *)
(***************************************************************************)

\* the day of "%d" as _strptime's regex takes it: 3[0-1]|[1-2]\d|0[1-9]|[1-9]| [1-9]
DayPart(chars) ==
    IF Len(chars) = 1
    THEN IF IsDigit(chars[1]) /\ chars[1] # "0" THEN DigitVal(chars[1]) ELSE 0
    ELSE IF chars[1] = "3" /\ chars[2] \in {"0", "1"} THEN 30 + DigitVal(chars[2])
    ELSE IF chars[1] \in {"1", "2"} /\ IsDigit(chars[2])
         THEN 10 * DigitVal(chars[1]) + DigitVal(chars[2])
    ELSE IF chars[1] \in {"0", " "} /\ IsDigit(chars[2]) /\ chars[2] # "0"
         THEN DigitVal(chars[2])
    ELSE 0

\* the month of "%m": 1[0-2]|0[1-9]|[1-9]
MonthPart(chars) ==
    IF Len(chars) = 1
    THEN IF IsDigit(chars[1]) /\ chars[1] # "0" THEN DigitVal(chars[1]) ELSE 0
    ELSE IF chars[1] = "1" /\ chars[2] \in {"0", "1", "2"} THEN 10 + DigitVal(chars[2])
    ELSE IF chars[1] = "0" /\ IsDigit(chars[2]) /\ chars[2] # "0" THEN DigitVal(chars[2])
    ELSE 0

\* the year of "%Y": \d\d\d\d, 0 when the four characters are not all digits
YearPart(chars) ==
    IF \A i \in 1..4 : IsDigit(chars[i])
    THEN 1000 * DigitVal(chars[1]) + 100 * DigitVal(chars[2])
         + 10 * DigitVal(chars[3]) + DigitVal(chars[4])
    ELSE 0

IsLeap(y) == (y % 4 = 0 /\ y % 100 # 0) \/ y % 400 = 0

DaysInMonth(y, m) ==
    IF m = 2 THEN (IF IsLeap(y) THEN 29 ELSE 28)
    ELSE IF m \in {4, 6, 9, 11} THEN 30 ELSE 31

\* datetime.datetime.strptime(value, '%d.%m.%Y') on the characters of a str:
\* [ok |-> a date was built, year |-> its year]; ok = FALSE is the ValueError
strptime(chars) ==
    LET fits(dl, ml) ==
            /\ Len(chars) = dl + ml + 6
            /\ chars[dl + 1] = "."
            /\ chars[dl + ml + 2] = "."
        split == {p \in {1, 2} \X {1, 2} : fits(p[1], p[2])}
    IN  IF split = {} THEN [ok |-> FALSE, year |-> 0]
        ELSE LET p == CHOOSE q \in split : TRUE
                 d == DayPart(SubSeq(chars, 1, p[1]))
                 m == MonthPart(SubSeq(chars, p[1] + 2, p[1] + p[2] + 1))
                 y == YearPart(SubSeq(chars, p[1] + p[2] + 3, p[1] + p[2] + 6))
             IN  IF d >= 1 /\ m >= 1 /\ y >= 1 /\ d <= DaysInMonth(y, m)
                 THEN [ok |-> TRUE, year |-> y]
                 ELSE [ok |-> FALSE, year |-> 0]

\* BaseField._validate_date: strptime raises TypeError on anything but a str,
\* and only ValueError is caught
_validate_date(value, birthday, clock) ==
    IF value.type # "str" THEN "raise"
    ELSE LET date == strptime(value.text)
         IN  IF ~date.ok THEN "false"
             ELSE IF birthday
                  THEN (IF clock.year - date.year < DELTA_YEAR THEN "true" ELSE "false")
                  ELSE "true"

FieldKinds ==
    {"CharField", "ArgumentsField", "EmailField", "PhoneField", "DateField",
     "BirthDayField", "GenderField", "ClientIDsField"}

ToResult(b) == IF b THEN "true" ELSE "false"

is_valid(kind, value, clock) ==
    CASE kind = "CharField" -> ToResult(value.type = "str")
      [] kind = "ArgumentsField" -> ToResult(value.type = "dict")
      [] kind = "EmailField" ->
            ToResult(value.type = "str" /\ \E i \in 1..Len(value.text) : value.text[i] = "@")
      [] kind = "PhoneField" ->
            ToResult((value.type = "str" \/ IsInstanceInt(value))
                     /\ Len(value.text) = 11 /\ value.text[1] = "7")
      [] kind = "DateField" -> _validate_date(value, FALSE, clock)
      [] kind = "BirthDayField" -> _validate_date(value, TRUE, clock)
      [] kind = "GenderField" ->
            \* value in [UNKNOWN, MALE, FEMALE]: == holds for the ints 0, 1, 2 and for
            \* the bools False (== 0) and True (== 1)
            ToResult((value.type = "int" /\ value.text \in {<<"0">>, <<"1">>, <<"2">>})
                     \/ value.type = "bool")
      [] kind = "ClientIDsField" ->
            ToResult(Truthy(value) /\ value.type = "list"
                     /\ \A i \in 1..Len(value.items) : IsInstanceInt(value.items[i]))

(***************************************************************************)
(* Request schemas: the class bodies                                       *)
(***************************************************************************)
Classes == {"ClientsInterestsRequest", "OnlineScoreRequest", "MethodRequest"}

\* the BaseField attributes of a class, in the order its body declares them
DeclaredFields(cls) ==
    CASE cls = "ClientsInterestsRequest" -> <<"client_ids", "date">>
      [] cls = "OnlineScoreRequest" ->
            <<"first_name", "last_name", "email", "phone", "birthday", "gender">>
      [] cls = "MethodRequest" -> <<"account", "login", "token", "arguments", "method">>

BaseField(kind, required, nullable) ==
    [isField |-> TRUE, kind |-> kind, required |-> required, nullable |-> nullable]

\* an attribute that is no BaseField: _abc_impl, error, root_validate = None, is_admin
Plain == [isField |-> FALSE, kind |-> "", required |-> FALSE, nullable |-> FALSE]

\* the attribute `name` of an instance of `cls` before validation
ClassAttr(cls, name) ==
    CASE cls = "ClientsInterestsRequest" /\ name = "client_ids" ->
            BaseField("ClientIDsField", TRUE, FALSE)
      [] cls = "ClientsInterestsRequest" /\ name = "date" -> BaseField("DateField", FALSE, TRUE)
      [] cls = "OnlineScoreRequest" /\ name = "first_name" -> BaseField("CharField", FALSE, TRUE)
      [] cls = "OnlineScoreRequest" /\ name = "last_name" -> BaseField("CharField", FALSE, TRUE)
      [] cls = "OnlineScoreRequest" /\ name = "email" -> BaseField("EmailField", FALSE, TRUE)
      [] cls = "OnlineScoreRequest" /\ name = "phone" -> BaseField("PhoneField", FALSE, TRUE)
      [] cls = "OnlineScoreRequest" /\ name = "birthday" ->
            BaseField("BirthDayField", FALSE, TRUE)
      [] cls = "OnlineScoreRequest" /\ name = "gender" -> BaseField("GenderField", FALSE, TRUE)
      [] cls = "MethodRequest" /\ name = "account" -> BaseField("CharField", FALSE, TRUE)
      [] cls = "MethodRequest" /\ name = "login" -> BaseField("CharField", TRUE, TRUE)
      [] cls = "MethodRequest" /\ name = "token" -> BaseField("CharField", TRUE, TRUE)
      [] cls = "MethodRequest" /\ name = "arguments" ->
            BaseField("ArgumentsField", TRUE, TRUE)
      [] cls = "MethodRequest" /\ name = "method" -> BaseField("CharField", TRUE, FALSE)
      [] OTHER -> Plain

\* whether the class sets root_validate (OnlineScoreRequest) or inherits None
HasRootValidate(cls) == cls = "OnlineScoreRequest"

\* what inspect.getmembers finds on the instance that is no routine and no
\* __dunder__: the fields, _abc_impl (abc.ABC), error (set to None by __init__),
\* root_validate where it is None, and the value of the is_admin property
Members(cls) ==
    {DeclaredFields(cls)[i] : i \in 1..Len(DeclaredFields(cls))}
    \cup {"_abc_impl", "error"}
    \cup (IF HasRootValidate(cls) THEN {} ELSE {"root_validate"})
    \cup (IF cls = "MethodRequest" THEN {"is_admin"} ELSE {})

\* every attribute name of the three classes in ascending string order:
\* inspect.getmembers sorts its result by name
NameOrder ==
    <<"_abc_impl", "account", "arguments", "birthday", "client_ids", "date", "email",
      "error", "first_name", "gender", "is_admin", "last_name", "login", "method",
      "phone", "root_validate", "token">>

\* a variant of _get_class_fields that keeps the order of the class body, fields
\* first, as a reader of the schema would expect
_get_class_fields_declared(cls) ==
    LET rest(n) == n \in Members(cls) /\ ~ClassAttr(cls, n).isField
    IN  DeclaredFields(cls) \o SelectSeq(NameOrder, rest)

\* BaseModel._get_class_fields: the member names (each stands for its
\* (name, attribute) pair; ClassAttr gives the attribute)
_get_class_fields(cls) ==
    LET member(n) == n \in Members(cls)
    IN  SelectSeq(NameOrder, member)

(***************************************************************************)
(* Schema engine                                                           *)
(***************************************************************************)
ErrorKinds == {"MissingError", "RequiredError", "FieldTypeError"}

\* BaseError.error_text of each error class
error_text(kind) ==
    CASE kind = "MissingError" -> "required fields are missing:"
      [] kind = "RequiredError" -> "these fields must not be empty:"
      [] kind = "FieldTypeError" -> "fields have a wrong type:"

\* the continue / fall-through of one turn of _validate_model's loop: an error
\* kind, "accept", or "raise" when is_valid does not return
CheckField(field, value, clock) ==
    IF ~field.isField THEN "accept"
    ELSE IF value.type = "NoneType" /\ field.required THEN "MissingError"
    ELSE IF ~Truthy(value) /\ ~field.nullable THEN "RequiredError"
    ELSE IF Truthy(value)
         THEN LET r == is_valid(field.kind, value, clock)
              IN  IF r = "raise" THEN "raise"
                  ELSE IF r = "false" THEN "FieldTypeError" ELSE "accept"
    ELSE "accept"

RECURSIVE ValidateFrom(_, _, _, _, _, _)
ValidateFrom(cls, fields, input_data, clock, i, acc) ==
    IF acc.raised \/ i > Len(fields) THEN acc
    ELSE LET name == fields[i]
             value == Get(input_data, name)
             verdict == CheckField(ClassAttr(cls, name), value, clock)
             next ==
                 IF verdict = "raise" THEN [acc EXCEPT !.raised = TRUE]
                 ELSE IF verdict \in ErrorKinds
                      THEN [acc EXCEPT !.errors = Append(@, [kind |-> verdict, field |-> name])]
                 ELSE [acc EXCEPT
                          !.fields_set = IF value.type # "NoneType" THEN @ \cup {name} ELSE @,
                          !.values = (name :> value) @@ @]
         IN  ValidateFrom(cls, fields, input_data, clock, i + 1, next)

\* BaseModel._validate_model over self.__fields__ = fields:
\* [raised, errors, values, fields_set]; validation_error is ValidationError(errors)
\* when errors is not empty
_validate_model(cls, fields, input_data, clock) ==
    ValidateFrom(cls, fields, input_data, clock, 1,
                 [raised |-> FALSE, errors |-> <<>>, values |-> <<>>, fields_set |-> {}])

\* a slip of validate_on_line_score_fields: one field of a pair is enough
validate_any_field_of_a_pair(fields_set) ==
    \E i \in 1..Len(REQUIRED_PAIR) : REQUIRED_PAIR[i] \cap fields_set # {}

validate_on_line_score_fields(fields_set) ==
    \E i \in 1..Len(REQUIRED_PAIR) : REQUIRED_PAIR[i] \subseteq fields_set

\* cls.root_validate(fields_set) where the class has one
root_validate(cls, fields_set) ==
    IF HasRootValidate(cls) THEN validate_on_line_score_fields(fields_set) ELSE TRUE

NoError == [kind |-> "None", value |-> None]

\* BaseModel.__init__: the instance it leaves.
\*   raised      the constructor left with an exception (no instance)
\*   error       self.error: NoError, a ValidationError or ConstrainError, or,
\*               once __dict__ is replaced by the values, the input's own "error"
\*   errors      the errors of the ValidationError
\*   validated   __dict__ was replaced (no error)
\*   dict        the validated values (instance __dict__)
\*   fields_set  self.__fields__ after validation
Instance(cls, r) ==
    LET blank == [raised |-> FALSE, error |-> NoError, errors |-> <<>>,
                  validated |-> FALSE, dict |-> <<>>, fields_set |-> {}]
    IN  IF r.raised THEN [blank EXCEPT !.raised = TRUE]
        ELSE IF r.errors # <<>>
             THEN [blank EXCEPT !.error = [kind |-> "ValidationError", value |-> None],
                                !.errors = r.errors]
        ELSE IF ~root_validate(cls, r.fields_set)
             THEN [blank EXCEPT !.error = [kind |-> "ConstrainError", value |-> None]]
        ELSE [blank EXCEPT
                 !.validated = TRUE,
                 !.dict = r.values,
                 !.fields_set = r.fields_set,
                 !.error = IF r.values["error"].type = "NoneType" THEN NoError
                           ELSE [kind |-> "input", value |-> r.values["error"]]]

BaseModel_init(cls, data, clock) ==
    Instance(cls, _validate_model(cls, _get_class_fields(cls), data, clock))

RECURSIVE GroupFrom(_, _, _)
GroupFrom(errors, i, result) ==
    IF i > Len(errors) THEN result
    ELSE LET text == error_text(errors[i].kind)
             at == {j \in 1..Len(result) : result[j].text = text}
             next ==
                 IF at = {}
                 THEN Append(result, [text |-> text, fields |-> <<errors[i].field>>])
                 ELSE [j \in 1..Len(result) |->
                          IF j \in at
                          THEN [result[j] EXCEPT !.fields = Append(@, errors[i].field)]
                          ELSE result[j]]
         IN  GroupFrom(errors, i + 1, next)

\* ValidationError.get_message: the (error_text, fields_list) items of result in
\* insertion order; the message is their ', '.join
get_message(errors) == GroupFrom(errors, 1, <<>>)

(***************************************************************************)
(* Inputs: the JSON values and keyword mappings the checks draw from       *)
(***************************************************************************)
MaxIds == 2

EmptyStr == JStr(<<>>)
SomeName == JStr(<<"P", "e", "t", "y", "a">>)
GoodEmail == JStr(<<"w", "@", "r">>)
BadEmail == JStr(<<"w", "r">>)
PhoneDigits == <<"7", "9", "2", "9", "8", "4", "0", "5", "5", "5", "5">>
GoodPhoneStr == JStr(PhoneDigits)
GoodPhoneInt == JInt(PhoneDigits)
BadPhone == JStr(<<"8", "9", "2", "9", "8", "4", "0", "5", "5", "5", "5">>)
LongPhone == JInt(PhoneDigits \o <<"1">>)
GoodDate == JStr(<<"2", "0", ".", "0", "4", ".", "1", "9", "7", "0">>)
EdgeDate == JStr(<<"2", "0", ".", "0", "4", ".", "1", "9", "5", "3">>)
OldDate == JStr(<<"2", "0", ".", "0", "4", ".", "1", "9", "5", "2">>)
ShortDate == JStr(<<"1", ".", "4", ".", "1", "9", "7", "0">>)
DashDate == JStr(<<"2", "0", "-", "0", "4", "-", "1", "9", "7", "0">>)
SlashDate == JStr(<<"2", "0", "/", "0", "4", "/", "1", "9", "7", "0">>)
NoSuchDay == JStr(<<"3", "1", ".", "0", "4", ".", "1", "9", "7", "0">>)
Zero == JInt(<<"0">>)
One == JInt(<<"1">>)
Two == JInt(<<"2">>)
Five == JInt(<<"5">>)
Twenty == JInt(<<"2", "0">>)
StrOne == JStr(<<"1">>)
SomeDict == JDict(<<"key">>, <<JStr(<<"v">>)>>)
EmptyDict == JDict(<<>>, <<>>)

\* the sequences over S of length at most n
RECURSIVE SeqsUpTo(_, _)
SeqsUpTo(S, n) ==
    IF n = 0 THEN {<<>>}
    ELSE LET shorter == SeqsUpTo(S, n - 1)
         IN  shorter \cup {Append(q, x) : q \in {t \in shorter : Len(t) = n - 1}, x \in S}

\* JSON lists of ints and strs, as client_ids may arrive
IdLists == {JList(q) : q \in SeqsUpTo({One, StrOne}, MaxIds)}

\* values of every JSON type, for direct calls of is_valid
JsonValues ==
    {None, EmptyStr, SomeName, GoodEmail, BadEmail, GoodPhoneStr, GoodPhoneInt, BadPhone,
     LongPhone, GoodDate, EdgeDate, OldDate, ShortDate, DashDate, SlashDate, NoSuchDay,
     Zero, One, Two, Five, Twenty, JBool(TRUE), JBool(FALSE), SomeDict, EmptyDict}
    \cup IdLists

\* the mappings that give each key of keys[i..] either no entry or one of choices[key]
RECURSIVE MappingsFrom(_, _, _)
MappingsFrom(keys, choices, i) ==
    IF i > Len(keys) THEN {<<>>}
    ELSE LET rest == MappingsFrom(keys, choices, i + 1)
         IN  rest \cup {(keys[i] :> v) @@ m : v \in choices[keys[i]], m \in rest}

Mappings(keys, choices) == MappingsFrom(keys, choices, 1)

OnlineScoreInputs ==
    Mappings(<<"first_name", "last_name", "email", "phone", "birthday", "gender", "error">>,
             [first_name |-> {EmptyStr, SomeName, Five},
              last_name |-> {SomeName, Five},
              email |-> {GoodEmail, BadEmail},
              phone |-> {GoodPhoneInt, BadPhone, EmptyStr},
              birthday |-> {GoodDate, EdgeDate, DashDate, Five},
              gender |-> {Zero, One, Twenty, JBool(TRUE)},
              error |-> {SomeName}])

ClientsInterestsInputs ==
    Mappings(<<"client_ids", "date", "error", "root_validate">>,
             [client_ids |-> IdLists \cup {One, StrOne},
              date |-> {GoodDate, DashDate, EmptyStr, Five, JBool(TRUE)},
              error |-> {SomeName},
              root_validate |-> {SomeName}])

MethodRequestInputs ==
    Mappings(<<"account", "login", "token", "arguments", "method", "is_admin">>,
             [account |-> {EmptyStr, SomeName, Zero},
              login |-> {EmptyStr, SomeName, Zero},
              token |-> {EmptyStr, SomeName},
              arguments |-> {EmptyDict, SomeDict, SomeName, Zero},
              method |-> {EmptyStr, SomeName, Five},
              is_admin |-> {JBool(TRUE)}])

Inputs(cls) ==
    CASE cls = "OnlineScoreRequest" -> OnlineScoreInputs
      [] cls = "ClientsInterestsRequest" -> ClientsInterestsInputs
      [] cls = "MethodRequest" -> MethodRequestInputs

\* readings of datetime.datetime.now(): the year and strftime("%Y%m%d%H")
Clocks ==
    {[year |-> 2022, stamp |-> <<"2", "0", "2", "2", "0", "4", "2", "0", "1", "0">>],
     [year |-> 2023, stamp |-> <<"2", "0", "2", "3", "0", "4", "2", "0", "1", "1">>]}

\* no store behind the handlers, no request being answered
NoStore == [up |-> TRUE, ids |-> {}]
NoRequest == [path |-> "", parsed |-> FALSE, body |-> None]
NoReply == [code |-> 0, key |-> "", payload |-> [kind |-> "", groups |-> <<>>, score |-> 0, ids |-> <<>>]]
NoContext == [keys |-> {}, has |-> {}, nclients |-> 0]
HandlerIdle ==
    /\ hpc = "idle"
    /\ hreq = NoRequest
    /\ hreply = NoReply
    /\ hctx = NoContext
    /\ hcalls = <<>>

\* no instance yet, no validator called
NoObject ==
    [raised |-> FALSE, error |-> NoError, errors |-> <<>>, validated |-> FALSE,
     dict |-> <<>>, fields_set |-> {}]
NoCall == [kind |-> "", value |-> None, result |-> ""]

ValidateIdle ==
    /\ vpc = "new"
    /\ vcls = ""
    /\ vdata = <<>>
    /\ vobj = NoObject
    /\ vmsg = <<>>
    /\ vcall = NoCall

(***************************************************************************)
(* The store client (store.py)                                             *)
(* A float is [whole, frac]: its integer part and the digits after the     *)
(* point, trailing zeros dropped.  Stored values are the characters of the *)
(* bytes Redis holds.                                                      *)
(***************************************************************************)
MAX_RETRIES == 3

StoreKeys == {"uid:1", "i:1"}

Float(whole, frac) == [whole |-> whole, frac |-> frac]

RECURSIVE WholeOf(_)
WholeOf(digits) ==
    IF digits = <<>> THEN 0
    ELSE 10 * WholeOf(SubSeq(digits, 1, Len(digits) - 1)) + DigitVal(digits[Len(digits)])

RECURSIVE StripZeros(_)
StripZeros(digits) ==
    IF digits # <<>> /\ digits[Len(digits)] = "0"
    THEN StripZeros(SubSeq(digits, 1, Len(digits) - 1))
    ELSE digits

RECURSIVE ToDigits(_)
ToDigits(n) == IF n < 10 THEN <<Digits[n + 1]>> ELSE ToDigits(n \div 10) \o <<Digits[(n % 10) + 1]>>

\* float(text) on plain decimal text: [ok, value]; ok = FALSE is the ValueError
ParseFloat(text) ==
    LET dots == {i \in 1..Len(text) : text[i] = "."}
        cut == IF dots = {} THEN Len(text) + 1 ELSE CHOOSE i \in dots : TRUE
        whole == SubSeq(text, 1, cut - 1)
        frac == SubSeq(text, cut + 1, Len(text))
    IN  IF /\ Cardinality(dots) <= 1
           /\ \A i \in (1..Len(text)) \ dots : IsDigit(text[i])
           /\ Len(whole) + Len(frac) >= 1
        THEN [ok |-> TRUE, value |-> Float(WholeOf(whole), StripZeros(frac))]
        ELSE [ok |-> FALSE, value |-> Float(0, <<>>)]

\* str(data) of a float, as the client sends it to Redis
FloatText(f) == ToDigits(f.whole) \o <<".">> \o (IF f.frac = <<>> THEN <<"0">> ELSE f.frac)

\* bool(float)
FloatTruthy(f) == f.whole # 0 \/ f.frac # <<>>

Absent == [present |-> FALSE, text |-> <<>>]
Stored(text) == [present |-> TRUE, text |-> text]

NoResult == [kind |-> "", value |-> Float(0, <<>>)]
NoStoreCall == [op |-> "", key |-> "", data |-> Float(0, <<>>)]

StoreIdle ==
    /\ spc = "idle"
    /\ scall = NoStoreCall
    /\ count = 0
    /\ attempts = <<>>
    /\ sleeps = <<>>
    /\ sresult = NoResult

\* a slip in wrap: a fixed backoff
BackoffFixed(n) == 2

\* wrap: backoff = count * 2
Backoff(n) == n * 2

\* a slip in wrap: giving up one attempt early
GiveUpEarly(n) == n >= MAX_RETRIES

\* wrap: if count > max_retries: raise
GiveUp(n) == n > MAX_RETRIES

\* RedisStore.get: `if value := self.cache_get(key)` fails for None and for 0.0
GetMisses(r) == r.kind = "None" \/ (r.kind = "float" /\ ~FloatTruthy(r.value))

\* the body of RedisStore.cache_get on what the server answers:
\* None when the reply is None or empty, the float of the text, or ValueError
cache_get_body(reply) ==
    IF ~reply.present \/ reply.text = <<>> THEN [kind |-> "None", value |-> Float(0, <<>>)]
    ELSE IF ParseFloat(reply.text).ok
         THEN [kind |-> "float", value |-> ParseFloat(reply.text).value]
    ELSE [kind |-> "ValueError", value |-> Float(0, <<>>)]

\* the values calls store, and the texts the server may hold at the start
StoreData == {Float(0, <<>>), Float(5, <<>>), Float(1, <<"5">>)}
StoredTexts ==
    {<<>>, <<"0">>, <<"0", ".", "0">>, <<"5", ".", "0">>, <<"7">>, <<"1", ".", "5">>,
     <<"[", "]">>}

InitStore ==
    /\ now \in Clocks
    /\ ValidateIdle
    /\ redis \in [StoreKeys -> {Absent} \cup {Stored(t) : t \in {<<"0">>, <<"5", ".", "0">>}}]
    /\ StoreIdle
    /\ istore = NoStore
    /\ HandlerIdle

\* store.cache_get(key), store.cache_set(key, data, ttl) or store.get(key) is
\* entered: wrap starts with count = 0
Call ==
    /\ spc = "idle"
    /\ \E op \in {"cache_get", "cache_set", "get"} : \E key \in StoreKeys :
       \E data \in StoreData :
          scall' = [op |-> op, key |-> key,
                    data |-> IF op = "cache_set" THEN data ELSE Float(0, <<>>)]
    /\ spc' = "trying"
    /\ count' = 0
    /\ attempts' = <<>>
    /\ sleeps' = <<>>
    /\ sresult' = NoResult
    /\ UNCHANGED <<now, vvars, redis, hvars>>

\* one turn of wrap's loop in which the wrapped function raises the transient
\* error (redis.exceptions.RedisError): count it, then give up or sleep and retry
AttemptFails ==
    /\ spc = "trying"
    /\ attempts' = Append(attempts, [met |-> "RedisError", reply |-> Absent])
    /\ count' = count + 1
    /\ IF GiveUp(count + 1)
       THEN /\ spc' = "raised"
            /\ sresult' = [kind |-> "RedisError", value |-> Float(0, <<>>)]
            /\ sleeps' = sleeps
       ELSE /\ spc' = "trying"
            /\ sleeps' = Append(sleeps, Backoff(count + 1))
            /\ sresult' = sresult
    /\ UNCHANGED <<now, vvars, redis, scall, hvars>>

\* one turn of wrap's loop in which the server answers: the wrapped function
\* runs to its end, and RedisStore.get finishes on what cache_get returned
AttemptAnswered ==
    /\ spc = "trying"
    /\ attempts' = Append(attempts, [met |-> "reply", reply |-> redis[scall.key]])
    /\ IF scall.op = "cache_set"
       THEN /\ redis' = [redis EXCEPT ![scall.key] = Stored(FloatText(scall.data))]
            /\ sresult' = [kind |-> "None", value |-> Float(0, <<>>)]
            /\ spc' = "returned"
       ELSE LET r == cache_get_body(redis[scall.key])
            IN  /\ redis' = redis
                /\ IF r.kind = "ValueError"
                   THEN sresult' = r /\ spc' = "raised"
                   ELSE IF scall.op = "get" /\ GetMisses(r)
                        THEN /\ sresult' = [kind |-> "StoreKeyNotFound", value |-> Float(0, <<>>)]
                             /\ spc' = "raised"
                        ELSE sresult' = r /\ spc' = "returned"
    /\ UNCHANGED <<now, vvars, scall, count, sleeps, hvars>>

\* the caller takes the result (or the exception) and the call is over
Leave ==
    /\ spc \in {"returned", "raised"}
    /\ spc' = "idle"
    /\ scall' = NoStoreCall
    /\ count' = 0
    /\ attempts' = <<>>
    /\ sleeps' = <<>>
    /\ sresult' = NoResult
    /\ UNCHANGED <<now, vvars, redis, hvars>>

\* the server drops a key whose ttl has run out, or another client writes one
ServerChanges ==
    /\ \E key \in StoreKeys : \E v \in {Absent} \cup {Stored(t) : t \in StoredTexts} :
          /\ redis[key] # v
          /\ redis' = [redis EXCEPT ![key] = v]
    /\ UNCHANGED <<now, vvars, spc, scall, count, attempts, sleeps, sresult, hvars>>

NextStore ==
    \/ Call
    \/ AttemptFails
    \/ AttemptAnswered
    \/ Leave
    \/ ServerChanges

SpecStore == InitStore /\ [][NextStore]_vars

\* every invocation of the wrapped function ends, by returning or by raising
SpecStoreFair ==
    SpecStore /\ WF_vars(AttemptFails \/ AttemptAnswered)

(***************************************************************************)
(* The schema engine on its own: classes are instantiated on keyword data, *)
(* the error message of a ValidationError is rendered, and validators are  *)
(* called directly.                                                        *)
(***************************************************************************)
InitValidate ==
    /\ now \in Clocks
    /\ ValidateIdle
    /\ redis = [k \in StoreKeys |-> Absent]
    /\ StoreIdle
    /\ istore = NoStore
    /\ HandlerIdle

\* an instance of a schema class is built on keyword data
Instantiate ==
    /\ vpc = "new"
    /\ \E cls \in Classes : \E data \in Inputs(cls) :
          /\ vcls' = cls
          /\ vdata' = data
          /\ vobj' = BaseModel_init(cls, data, now)
    /\ vpc' = "built"
    /\ UNCHANGED <<now, vmsg, vcall, svars, hvars>>

\* error.get_message() on the ValidationError of the instance
RenderMessage ==
    /\ vpc = "built"
    /\ vobj.error.kind = "ValidationError"
    /\ vmsg' = get_message(vobj.errors)
    /\ vpc' = "rendered"
    /\ UNCHANGED <<now, vcls, vdata, vobj, vcall, svars, hvars>>

\* field.is_valid(value) on a bare field
CallIsValid ==
    /\ vpc = "new"
    /\ \E kind \in FieldKinds : \E value \in JsonValues :
          vcall' = [kind |-> kind, value |-> value, result |-> is_valid(kind, value, now)]
    /\ vpc' = "checked"
    /\ UNCHANGED <<now, vcls, vdata, vobj, vmsg, svars, hvars>>

\* the instance goes out of scope
Discard ==
    /\ vpc # "new"
    /\ vpc' = "new"
    /\ vcls' = ""
    /\ vdata' = <<>>
    /\ vobj' = NoObject
    /\ vmsg' = <<>>
    /\ vcall' = NoCall
    /\ UNCHANGED <<now, svars, hvars>>

NextValidate ==
    \/ Instantiate
    \/ RenderMessage
    \/ CallIsValid
    \/ Discard

SpecValidate == InitValidate /\ [][NextValidate]_vars

(***************************************************************************)
(* Properties of the schema engine (SpecValidate)                          *)
(***************************************************************************)

\* what the documented per-field rules give for one input value: Missing for an
\* absent/None value of a required field, else EmptyNotAllowed for a falsy value
\* of a non-nullable field, else WrongType for a truthy value the validator does
\* not accept, else "accept"
ExpectedKind(cls, name, data, clock) ==
    LET field == ClassAttr(cls, name)
        value == Get(data, name)
    IN  IF ~field.isField THEN "accept"
        ELSE IF value.type = "NoneType" /\ field.required THEN "MissingError"
        ELSE IF ~Truthy(value) /\ ~field.nullable THEN "RequiredError"
        ELSE IF Truthy(value) /\ is_valid(field.kind, value, clock) # "true"
             THEN "FieldTypeError"
        ELSE "accept"

DeclaredSet(cls) == {DeclaredFields(cls)[i] : i \in 1..Len(DeclaredFields(cls))}

EntriesFor(errors, name) == {i \in 1..Len(errors) : errors[i].field = name}

\* the per-field pass returned, and its result is the documented classification
\* of every declared field
ClassifiedAsDocumented(cls, data, clock) ==
    LET r == _validate_model(cls, _get_class_fields(cls), data, clock)
    IN  /\ ~r.raised
        /\ \A i \in 1..Len(r.errors) : r.errors[i].field \in DeclaredSet(cls)
        /\ \A name \in DeclaredSet(cls) :
              LET kind == ExpectedKind(cls, name, data, clock)
                  at == EntriesFor(r.errors, name)
              IN  IF kind \in ErrorKinds
                  THEN /\ Cardinality(at) = 1
                       /\ \A i \in at : r.errors[i].kind = kind
                       /\ name \notin DOMAIN r.values
                       /\ name \notin r.fields_set
                  ELSE /\ at = {}
                       /\ name \in DOMAIN r.values
                       /\ r.values[name] = Get(data, name)
                       /\ (name \in r.fields_set <=> Get(data, name).type # "NoneType")

\* C3: _validate_model classifies every declared field independently (Missing,
\* else EmptyNotAllowed, else WrongType, else accepted and stored, in the
\* set-fields exactly when not None) and returns exactly one error entry for each
\* failing field, whatever the other fields hold.
C3_EveryFieldClassified ==
    vpc = "built" => ClassifiedAsDocumented(vcls, vdata, now)

\* The classification of C3 on the inputs for which every validator returns.
ClassifiedWhenReturned ==
    (vpc = "built" /\ ~vobj.raised) => ClassifiedAsDocumented(vcls, vdata, now)

\* the fields of `order` whose error, by the documented rules, has this text
FailingIn(order, text, cls, data, clock) ==
    LET fails(name) ==
            /\ ExpectedKind(cls, name, data, clock) \in ErrorKinds
            /\ error_text(ExpectedKind(cls, name, data, clock)) = text
    IN  SelectSeq(order, fails)

FailingTexts(cls, data, clock) ==
    {error_text(ExpectedKind(cls, name, data, clock)) :
        name \in {n \in DeclaredSet(cls) : ExpectedKind(cls, n, data, clock) \in ErrorKinds}}

\* the message has one group per failing kind, and each group lists its fields
\* in the order of `order`
GroupedInOrder(order) ==
    /\ {vmsg[j].text : j \in 1..Len(vmsg)} = FailingTexts(vcls, vdata, now)
    /\ \A j, k \in 1..Len(vmsg) : vmsg[j].text = vmsg[k].text => j = k
    /\ \A j \in 1..Len(vmsg) :
          vmsg[j].fields = FailingIn(order, vmsg[j].text, vcls, vdata, now)

\* C4 as stated: the message of a ValidationError groups the errors by kind and
\* lists the fields of each kind in the order the schema declares them.
C4_DeclarationOrder ==
    vpc = "rendered" => GroupedInOrder(DeclaredFields(vcls))

\* C4 amended: the message of a ValidationError groups the errors by kind and
\* lists the fields of each kind in ascending order of field name.
C4_NameOrder ==
    vpc = "rendered" => GroupedInOrder(NameOrder)

\* C4 witness: a rendered message one of whose groups holds gender before phone,
\* two fields the schema declares the other way round.
C4_Witness ==
    /\ vpc = "rendered"
    /\ vcls = "OnlineScoreRequest"
    /\ \E j \in 1..Len(vmsg) : vmsg[j].fields = <<"gender", "phone">>

\* the fields the input sets: the keys whose value is not None
SetKeys(data) == {k \in DOMAIN data : data[k].type # "NoneType"}

NoFieldFails(cls, data, clock) ==
    \A name \in DeclaredSet(cls) : ExpectedKind(cls, name, data, clock) = "accept"

SomePairSet(data) == \E i \in 1..Len(REQUIRED_PAIR) : REQUIRED_PAIR[i] \subseteq SetKeys(data)

\* C5: an OnlineScoreRequest carries a ConstrainError only when the per-field
\* pass found no error (never both kinds of error), and when no field fails the
\* request is accepted exactly when one of the pairs first_name/last_name,
\* birthday/gender, email/phone is wholly among the fields that were set.
C5_ConstraintAfterFields ==
    (vpc = "built" /\ vcls = "OnlineScoreRequest" /\ ~vobj.raised) =>
        /\ vobj.error.kind = "ValidationError" <=> ~NoFieldFails(vcls, vdata, now)
        /\ vobj.error.kind = "ValidationError" <=> vobj.errors # <<>>
        /\ vobj.error.kind = "ConstrainError" =>
              NoFieldFails(vcls, vdata, now) /\ vobj.errors = <<>>
        /\ NoFieldFails(vcls, vdata, now) =>
              /\ vobj.validated <=> SomePairSet(vdata)
              /\ vobj.error.kind = "ConstrainError" <=> ~SomePairSet(vdata)

\* C5 witness: only phone and gender are set, no field fails, and the request
\* carries the ConstrainError.
C5_Witness ==
    /\ vpc = "built"
    /\ vcls = "OnlineScoreRequest"
    /\ SetKeys(vdata) = {"phone", "gender"}
    /\ NoFieldFails(vcls, vdata, now)
    /\ vobj.error.kind = "ConstrainError"

\* C5 second witness: birthday and gender are set and the request is accepted.
C5_WitnessAccepted ==
    /\ vpc = "built"
    /\ vcls = "OnlineScoreRequest"
    /\ SetKeys(vdata) = {"birthday", "gender"}
    /\ vobj.validated

\* C9: every validator's is_valid returns true or false for a value of any JSON
\* type and never raises, so no instantiation of a schema ends in an exception.
C9_ValidatorsTotal ==
    /\ vpc = "checked" => vcall.result \in {"true", "false"}
    /\ vpc = "built" => ~vobj.raised

(***************************************************************************)
(* Properties of the store client (SpecStore, SpecStoreFair)               *)
(***************************************************************************)
CallOver == spc \in {"returned", "raised"}

\* the first k invocations of the call met the transient error
FirstFail(k) == \A i \in 1..k : attempts[i].met = "RedisError"

\* 2, 4, ..., 2k seconds
RisingSleeps(k) == [i \in 1..k |-> 2 * i]

\* what a call that got this reply hands back when it returns
ValueOfReply(op, reply) ==
    IF op = "cache_set" \/ ~reply.present \/ reply.text = <<>>
    THEN [kind |-> "None", value |-> Float(0, <<>>)]
    ELSE [kind |-> "float", value |-> ParseFloat(reply.text).value]

C6_State ==
    /\ spc = "trying" =>
          /\ FirstFail(Len(attempts))
          /\ Len(attempts) <= MAX_RETRIES
          /\ sleeps = RisingSleeps(Len(attempts))
    /\ (CallOver /\ attempts[Len(attempts)].met = "reply") =>
          LET k == Len(attempts) - 1
          IN  /\ FirstFail(k)
              /\ k <= MAX_RETRIES
              /\ sleeps = RisingSleeps(k)
              /\ spc = "returned" =>
                    sresult = ValueOfReply(scall.op, attempts[k + 1].reply)

C6_Step == CallOver => (attempts' = attempts \/ spc' = "idle")

\* C6: a wrapped store call whose first k <= 3 attempts fail with the transient
\* error and whose next attempt succeeds returns the value of that attempt, has
\* invoked the operation exactly k + 1 times and never invokes it again, and has
\* slept 2, 4, ..., 2k seconds between the attempts.
C6_RetryThenSuccess == []C6_State /\ [][C6_Step]_vars

\* C6 witness: a cache_get that failed three times, then read a float and
\* returned it.
C6_Witness ==
    /\ spc = "returned"
    /\ scall.op = "cache_get"
    /\ Len(attempts) = MAX_RETRIES + 1
    /\ sresult.kind = "float"
    /\ sleeps = <<2, 4, 6>>

RECURSIVE SumOf(_)
SumOf(q) == IF q = <<>> THEN 0 ELSE q[1] + SumOf(Tail(q))

C7_State ==
    /\ Len(attempts) <= MAX_RETRIES + 1
    /\ (Len(attempts) = MAX_RETRIES + 1 /\ FirstFail(MAX_RETRIES + 1)) =>
          /\ spc = "raised"
          /\ sresult.kind = "RedisError"
    /\ (spc = "raised" /\ sresult.kind = "RedisError") =>
          /\ Len(attempts) = MAX_RETRIES + 1
          /\ FirstFail(MAX_RETRIES + 1)
          /\ sleeps = <<2, 4, 6>>
          /\ SumOf(sleeps) = 12
    /\ (spc = "raised" /\ sresult.kind = "ValueError") =>
          /\ attempts[Len(attempts)].met = "reply"
          /\ FirstFail(Len(attempts) - 1)
          /\ Len(sleeps) = Len(attempts) - 1
          /\ count = Len(attempts) - 1

\* C7: every wrapped store call ends; one whose attempts all fail with the
\* transient error invokes the operation MAX_RETRIES + 1 = 4 times, sleeps 2, 4
\* and 6 seconds (12 in all, none after the last failure) and raises that error;
\* an error that is not transient is not retried: the invocation that raised it
\* is the last one.
C7_BoundedRetries == []C7_State /\ (spc = "trying" ~> CallOver)

\* C7 witness: a call that gave up after four transient failures.
C7_Witness ==
    /\ spc = "raised"
    /\ sresult.kind = "RedisError"
    /\ Len(attempts) = MAX_RETRIES + 1
    /\ sleeps = <<2, 4, 6>>

\* C8: RedisStore.get raises StoreKeyNotFound exactly when the key is absent: a
\* key that is present with a numeric value gives that value, an absent key
\* gives StoreKeyNotFound after one lookup with no retry and no sleep, and a
\* connectivity error never becomes StoreKeyNotFound.
C8_NotFoundIffAbsent ==
    (scall.op = "get" /\ CallOver) =>
        LET last == attempts[Len(attempts)]
        IN  /\ sresult.kind = "StoreKeyNotFound" <=>
                  (last.met = "reply" /\ ~last.reply.present)
            /\ (last.met = "reply" /\ last.reply.present /\ ParseFloat(last.reply.text).ok) =>
                  /\ spc = "returned"
                  /\ sresult = [kind |-> "float", value |-> ParseFloat(last.reply.text).value]
            /\ (last.met = "reply" /\ ~last.reply.present /\ Len(attempts) = 1) =>
                  /\ sresult.kind = "StoreKeyNotFound"
                  /\ sleeps = <<>>
            /\ last.met = "RedisError" => sresult.kind = "RedisError"

\* What holds of RedisStore.get instead: it raises StoreKeyNotFound exactly when
\* the last lookup found no key, an empty value or a value equal to zero.
GetNotFoundWhenFalsy ==
    (scall.op = "get" /\ CallOver) =>
        LET last == attempts[Len(attempts)]
        IN  sresult.kind = "StoreKeyNotFound" <=>
                /\ last.met = "reply"
                /\ \/ ~last.reply.present
                   \/ last.reply.text = <<>>
                   \/ /\ ParseFloat(last.reply.text).ok
                      /\ ~FloatTruthy(ParseFloat(last.reply.text).value)

(***************************************************************************)
(* Authenticator and dispatcher                                            *)
(***************************************************************************)
SALT == <<"O", "t", "u", "s">>
ADMIN_LOGIN == <<"a", "d", "m", "i", "n">>
ADMIN_SALT == <<"4", "2">>

\* hashlib.sha512(text.encode()).hexdigest(): a str that names its input, so
\* equal digests mean equal inputs
sha512hex(chars) == JStr(<<"sha512(">> \o chars \o <<")">>)

\* the keyword data of a decoded JSON object
AsMapping(v) ==
    [k \in {v.keys[i] : i \in 1..Len(v.keys)} |->
        v.items[CHOOSE i \in 1..Len(v.keys) : v.keys[i] = k]]

\* the attribute `name` of a validated instance
Attr(obj, name) == obj.dict[name]

\* MethodRequest.is_admin
is_admin(data) ==
    Attr(data, "login").type = "str" /\ Attr(data, "login").text = ADMIN_LOGIN

\* check_auth: "true", "false", or "raise" for the TypeError of
\* request.account + request.login + SALT on anything but three strs
check_auth(data, clock) ==
    IF is_admin(data)
    THEN IF sha512hex(clock.stamp \o ADMIN_SALT) = Attr(data, "token") THEN "true" ELSE "false"
    ELSE IF Attr(data, "account").type # "str" \/ Attr(data, "login").type # "str"
         THEN "raise"
    ELSE IF sha512hex(Attr(data, "account").text \o Attr(data, "login").text \o SALT)
               = Attr(data, "token")
         THEN "true" ELSE "false"

\* the context dict: its keys, and what "has" and "nclients" hold
NewContext == [keys |-> {"request_id"}, has |-> {}, nclients |-> 0]

\* a response body: {} ("empty"), the ERRORS text of the code ("default"), a
\* ValidationError message ("message", its groups), the ConstrainError message
\* ("constrain"), {"score": score} or the interests of the ids fetched
Payload(kind) == [kind |-> kind, groups |-> <<>>, score |-> 0, ids |-> <<>>]

\* what a function of the dispatcher hands back, or the exception it leaves with
Outcome(raised, response, code, ctx, calls) ==
    [raised |-> raised, response |-> response, code |-> code, ctx |-> ctx, calls |-> calls]

\* get_error(error_code, message)
get_error(code, message) == IF message.kind = "empty" THEN Payload("default") ELSE message

\* error.get_message() of the error a schema instance carries
MessageOf(obj) ==
    IF obj.error.kind = "ValidationError"
    THEN [Payload("message") EXCEPT !.groups = get_message(obj.errors)]
    ELSE Payload("constrain")

MethodNames == {<<"o", "n", "l", "i", "n", "e", "_", "s", "c", "o", "r", "e">>,
                <<"c", "l", "i", "e", "n", "t", "s", "_", "i", "n", "t", "e", "r", "e", "s", "t", "s">>}

\* arguments_class[data.method]
arguments_class(method) ==
    IF method = <<"o", "n", "l", "i", "n", "e", "_", "s", "c", "o", "r", "e">>
    THEN "OnlineScoreRequest" ELSE "ClientsInterestsRequest"

\* get_arguments_and_error: the instance of the method's schema
get_arguments_and_error(data, clock) ==
    LET given == Attr(data, "arguments")
        data_arguments == IF given.type = "dict" THEN AsMapping(given) ELSE <<>>
    IN  BaseModel_init(arguments_class(Attr(data, "method").text), data_arguments, clock)

\* update_context after OnlineScoreRequest.get_context: "has" is the set of set
\* fields, or every class member when validation failed
ContextHas(ctx, arguments) ==
    [ctx EXCEPT !.keys = @ \cup {"has"},
                !.has = IF arguments.validated THEN arguments.fields_set
                        ELSE Members("OnlineScoreRequest")]

\* arguments.client_ids: the validated list, or the class attribute (an empty
\* list: ClientIDsField derives from list) when validation failed
client_ids_of(arguments) ==
    IF arguments.validated THEN Attr(arguments, "client_ids").items ELSE <<>>

\* update_context after ClientsInterestsRequest.get_context
ContextNclients(ctx, arguments) ==
    [ctx EXCEPT !.keys = @ \cup {"nclients"}, !.nclients = Len(client_ids_of(arguments))]

\* get_score(store, ...): a score computed through the store, 0 when the store fails
get_score(store) == IF store.up THEN 5 ELSE 0

\* online_score once get_arguments_and_error has returned arguments
score_of(data, arguments, ctx, store) ==
    LET scored == ~is_admin(data)
        calls == <<"online_score">> \o (IF scored THEN <<"get_score">> ELSE <<>>)
        response ==
            [Payload("score") EXCEPT !.score = IF scored THEN get_score(store) ELSE ADMIN_SCORE]
    IN  IF arguments.raised THEN Outcome("TypeError", Payload("empty"), OK, ctx, <<"online_score">>)
        ELSE [raised |-> "", response |-> response, error |-> arguments.error,
              instance |-> arguments, ctx |-> ContextHas(ctx, arguments), calls |-> calls]

\* online_score
online_score(data, ctx, store, clock) ==
    score_of(data, get_arguments_and_error(data, clock), ctx, store)

\* the prefix of ids that get_interests answered before the first failure
RECURSIVE Fetched(_, _, _)
Fetched(ids, store, i) ==
    IF i > Len(ids) \/ ~store.up \/ ids[i].text \notin store.ids THEN SubSeq(ids, 1, i - 1)
    ELSE Fetched(ids, store, i + 1)

\* the outcome of clients_interests when the store answered `got` of `ids`
interests_asked(arguments, ctx, store, ids, got) ==
    LET asked == IF Len(got) < Len(ids) THEN Len(got) + 1 ELSE Len(got)
        calls == <<"clients_interests">> \o [i \in 1..asked |-> "get_interests"]
    IN  IF Len(got) < Len(ids)
        THEN Outcome(IF store.up THEN "StoreKeyNotFound" ELSE "RedisError",
                     Payload("empty"), OK, ctx, calls)
        ELSE [raised |-> "", response |-> [Payload("interests") EXCEPT !.ids = got],
              error |-> arguments.error, instance |-> arguments, ctx |-> ctx, calls |-> calls]

\* clients_interests once get_arguments_and_error has returned arguments:
\* get_interests(store, client_id) for each id in turn; store.get raises
\* StoreKeyNotFound on a miss and the store's error when it is down
interests_of(arguments, ctx, store) ==
    IF arguments.raised
    THEN Outcome("TypeError", Payload("empty"), OK, ctx, <<"clients_interests">>)
    ELSE interests_asked(arguments, ContextNclients(ctx, arguments), store,
                         client_ids_of(arguments),
                         Fetched(client_ids_of(arguments), store, 1))

\* clients_interests
clients_interests(data, ctx, store, clock) ==
    interests_of(get_arguments_and_error(data, clock), ctx, store)

\* a slip in method_handler: `except Exception` around the method call
method_outcome_any_exception(r, calls) ==
    IF r.raised # ""
    THEN Outcome("", get_error(BAD_REQUEST, Payload("empty")), BAD_REQUEST, r.ctx, calls \o r.calls)
    ELSE IF ~Truthy(r.error.value) /\ r.error.kind \in {"None", "input"}
         THEN Outcome("", r.response, OK, r.ctx, calls \o r.calls)
    ELSE IF r.error.kind = "input"
         THEN Outcome("AttributeError", Payload("empty"), OK, r.ctx, calls \o r.calls)
    ELSE Outcome("", get_error(INVALID_REQUEST, MessageOf(r.instance)), INVALID_REQUEST,
                 r.ctx, calls \o r.calls)

\* the end of method_handler once the method was called: an exception of the
\* method is no KeyError and leaves method_handler; else (response, OK) if not
\* error else get_error(INVALID_REQUEST, error.get_message())
method_outcome(r, calls) ==
    IF r.raised # "" THEN Outcome(r.raised, Payload("empty"), OK, r.ctx, calls \o r.calls)
    ELSE IF ~Truthy(r.error.value) /\ r.error.kind \in {"None", "input"}
         THEN Outcome("", r.response, OK, r.ctx, calls \o r.calls)
    ELSE IF r.error.kind = "input"
         THEN Outcome("AttributeError", Payload("empty"), OK, r.ctx, calls \o r.calls)
    ELSE Outcome("", get_error(INVALID_REQUEST, MessageOf(r.instance)), INVALID_REQUEST,
                 r.ctx, calls \o r.calls)

\* `if error := data.error` for an error of the schema engine
EnvelopeError(data) == data.error.kind \in {"ValidationError", "ConstrainError"}

\* method_handler once check_auth has answered auth
dispatch(data, auth, ctx, store, clock, calls) ==
    IF auth = "raise" THEN Outcome("TypeError", Payload("empty"), OK, ctx, calls)
    ELSE IF auth = "false"
         THEN Outcome("", get_error(FORBIDDEN, Payload("empty")), FORBIDDEN, ctx, calls)
    ELSE IF Attr(data, "method").text \notin MethodNames
         THEN Outcome("", get_error(BAD_REQUEST, Payload("empty")), BAD_REQUEST, ctx, calls)
    ELSE IF arguments_class(Attr(data, "method").text) = "OnlineScoreRequest"
         THEN method_outcome(online_score(data, ctx, store, clock), calls)
    ELSE method_outcome(clients_interests(data, ctx, store, clock), calls)

\* method_handler once MethodRequest(..) has built data
handle(data, ctx, store, clock) ==
    IF data.raised THEN Outcome("TypeError", Payload("empty"), OK, ctx, <<"MethodRequest">>)
    ELSE IF EnvelopeError(data)
         THEN Outcome("", get_error(INVALID_REQUEST, MessageOf(data)), INVALID_REQUEST,
                      ctx, <<"MethodRequest">>)
    ELSE IF data.error.kind = "input" /\ Truthy(data.error.value)
         THEN Outcome("AttributeError", Payload("empty"), OK, ctx, <<"MethodRequest">>)
    ELSE dispatch(data, check_auth(data, clock), ctx, store, clock,
                  <<"MethodRequest", "check_auth">>)

\* method_handler(request, ctx, store), body being request.get('body')
method_handler(body, ctx, store, clock) ==
    IF ~Truthy(body)
    THEN Outcome("", get_error(INVALID_REQUEST, Payload("empty")), INVALID_REQUEST, ctx, <<>>)
    ELSE IF body.type # "dict" THEN Outcome("TypeError", Payload("empty"), OK, ctx, <<>>)
    ELSE handle(BaseModel_init("MethodRequest", AsMapping(body), clock), ctx, store, clock)

(***************************************************************************)
(* HTTP transport                                                          *)
(***************************************************************************)
OnlineScoreName == JStr(<<"o", "n", "l", "i", "n", "e", "_", "s", "c", "o", "r", "e">>)
ClientsInterestsName ==
    JStr(<<"c", "l", "i", "e", "n", "t", "s", "_", "i", "n", "t", "e", "r", "e", "s", "t", "s">>)
UnknownName == JStr(<<"n", "e", "w">>)
AdminLogin == JStr(ADMIN_LOGIN)

\* the JSON object of a mapping, its keys in name order
ToDict(m) ==
    LET keys == SelectSeq(NameOrder, LAMBDA k : k \in DOMAIN m)
    IN  JDict(keys, [i \in 1..Len(keys) |-> m[keys[i]]])

\* "arguments" objects sent for online_score
ScoreArguments ==
    {ToDict(m) : m \in Mappings(
        <<"first_name", "last_name", "phone", "gender", "birthday">>,
        [first_name |-> {SomeName}, last_name |-> {SomeName},
         phone |-> {GoodPhoneInt, BadPhone}, gender |-> {One, Twenty},
         birthday |-> {GoodDate, Five}])}

\* "arguments" objects sent for clients_interests
InterestsArguments ==
    {ToDict(m) : m \in Mappings(
        <<"client_ids", "date", "error">>,
        [client_ids |-> {JList(ids) : ids \in SeqsUpTo({One, Two}, MaxIds)} \cup {JList(<<StrOne>>)},
         date |-> {GoodDate, DashDate, Five},
         error |-> {SomeName}])}

\* tokens: the empty one, the administrator's for the current hour and for an
\* hour gone by, and a user's
Tokens(clock) ==
    {EmptyStr,
     sha512hex(clock.stamp \o ADMIN_SALT),
     sha512hex(<<"2", "0", "2", "1", "0", "4", "2", "0", "1", "0">> \o ADMIN_SALT),
     sha512hex(SomeName.text \o SomeName.text \o SALT)}

\* decoded request bodies that are JSON objects, each key absent or one of its choices
Envelopes(choices) ==
    {ToDict(m) : m \in Mappings(
        <<"account", "login", "token", "method", "arguments", "error">>, choices)}

\* envelopes of every shape around a few arguments
AnyEnvelopes(clock) ==
    Envelopes([account |-> {SomeName},
               login |-> {EmptyStr, SomeName, AdminLogin, Zero},
               token |-> Tokens(clock),
               method |-> {EmptyStr, OnlineScoreName, ClientsInterestsName, UnknownName},
               arguments |-> {EmptyDict, SomeName,
                              ToDict([phone |-> GoodPhoneInt, email |-> GoodEmail]),
                              ToDict([client_ids |-> JList(<<One, Two>>)])},
               error |-> {SomeName}])

\* a complete envelope
Complete(login, token, method, arguments) ==
    ToDict([account |-> SomeName, login |-> login, token |-> token, method |-> method,
            arguments |-> arguments])

\* complete envelopes around arguments of every shape
AnyArguments(clock) ==
    {Complete(login, token, OnlineScoreName, arguments) :
        login \in {SomeName, AdminLogin}, token \in Tokens(clock), arguments \in ScoreArguments}
    \cup {Complete(login, token, ClientsInterestsName, arguments) :
            login \in {SomeName, AdminLogin}, token \in Tokens(clock), arguments \in InterestsArguments}

\* the POSTs the server is sent: a path, whether json.loads accepted the body,
\* and the decoded body
Requests(clock) ==
    {[path |-> "method", parsed |-> TRUE, body |-> b] :
        b \in AnyEnvelopes(clock) \cup AnyArguments(clock)
              \cup {EmptyDict, JList(<<>>), JList(<<One>>), SomeName, Zero}}
    \cup {[path |-> "method", parsed |-> FALSE, body |-> None],
          [path |-> "other", parsed |-> TRUE, body |-> ToDict([method |-> OnlineScoreName])]}

\* the stores get_interests reads: which client ids have interests, and whether
\* the store answers at all
InterestStores ==
    {[up |-> TRUE, ids |-> {}], [up |-> TRUE, ids |-> {One.text}],
     [up |-> TRUE, ids |-> {One.text, Two.text}], [up |-> FALSE, ids |-> {}]}

router == {"method"}

\* the rest of do_POST once `code` and `response` are set: the reply written
\* and context.update(r)
Respond(req, response, code, ctx, calls) ==
    LET key == IF code \notin ERRORS THEN "response" ELSE "error"
        payload == IF code \in ERRORS /\ response.kind = "empty" THEN Payload("default")
                   ELSE response
    IN  /\ hpc' = "responded"
        /\ hreq' = req
        /\ hreply' = [code |-> code, key |-> key, payload |-> payload]
        /\ hctx' = [ctx EXCEPT !.keys = @ \cup {key, "code"}]
        /\ hcalls' = calls

\* do_POST once the routed handler has returned or raised
Routed(req, r) ==
    IF r.raised # "" THEN Respond(req, Payload("empty"), INTERNAL_ERROR, r.ctx, r.calls)
    ELSE Respond(req, r.response, r.code, r.ctx, r.calls)

\* MainHTTPHandler.do_POST
do_POST ==
    /\ hpc = "idle"
    /\ \E req \in Requests(now) :
          IF ~req.parsed THEN Respond(req, Payload("empty"), BAD_REQUEST, NewContext, <<>>)
          ELSE IF ~Truthy(req.body) THEN Respond(req, Payload("empty"), OK, NewContext, <<>>)
          ELSE IF req.path \notin router
               THEN Respond(req, Payload("empty"), NOT_FOUND, NewContext, <<>>)
          ELSE Routed(req, method_handler(req.body, NewContext, istore, now))
    /\ UNCHANGED <<now, vvars, svars, istore>>

\* the reply is sent; the server waits for the next request
Served ==
    /\ hpc = "responded"
    /\ hpc' = "idle"
    /\ hreq' = NoRequest
    /\ hreply' = NoReply
    /\ hctx' = NoContext
    /\ hcalls' = <<>>
    /\ UNCHANGED <<now, vvars, svars, istore>>

InitHandler ==
    /\ now \in Clocks
    /\ ValidateIdle
    /\ redis = [k \in StoreKeys |-> Absent]
    /\ StoreIdle
    /\ istore \in InterestStores
    /\ HandlerIdle

NextHandler == do_POST \/ Served

SpecHandler == InitHandler /\ [][NextHandler]_vars

(***************************************************************************)
(* Properties of the dispatcher                                            *)
(***************************************************************************)
\* a POST to /method that carried a non-empty JSON object has been answered
Answered ==
    /\ hpc = "responded"
    /\ hreq.parsed
    /\ hreq.path \in router
    /\ hreq.body.type = "dict"
    /\ Truthy(hreq.body)

\* what the request body gives for a key, None when it has no such key
Supplied(key) ==
    IF key \in DOMAIN AsMapping(hreq.body) THEN AsMapping(hreq.body)[key] ELSE None

TextOf(v) == IF v.type = "str" THEN v.text ELSE <<>>

\* the digest the documentation expects of the token
ExpectedDigest ==
    IF Supplied("login").type = "str" /\ Supplied("login").text = ADMIN_LOGIN
    THEN sha512hex(now.stamp \o ADMIN_SALT)
    ELSE sha512hex(TextOf(Supplied("account")) \o TextOf(Supplied("login")) \o SALT)

TokenMatches == Supplied("token") = ExpectedDigest

\* the envelope as MethodRequest sees it, and whether it validates
TheEnvelope == BaseModel_init("MethodRequest", AsMapping(hreq.body), now)
EnvelopeValid == ~TheEnvelope.raised /\ ~EnvelopeError(TheEnvelope)
KnownMethod == Supplied("method").text \in MethodNames

\* the arguments as the method's schema sees them, and whether they validate
TheArguments == get_arguments_and_error(TheEnvelope, now)
ArgumentsValid == ~TheArguments.raised /\ ~EnvelopeError(TheArguments)

\* every client id asked for is answered by the store
LookupsAnswered ==
    arguments_class(Supplied("method").text) = "ClientsInterestsRequest"
        => /\ istore.up
           /\ \A i \in 1..Len(client_ids_of(TheArguments)) :
                 client_ids_of(TheArguments)[i].text \in istore.ids

MethodCalls == {"online_score", "clients_interests", "get_score", "get_interests"}
Reached(name) == \E i \in 1..Len(hcalls) : hcalls[i] = name

\* envelope validation, authentication, routing and argument validation decide
\* the status in that order; with excused, answers of 500 are left out
ChecksInOrder(excused) ==
    (Answered /\ (excused => hreply.code # INTERNAL_ERROR)) =>
        /\ ~EnvelopeValid => hreply.code = INVALID_REQUEST /\ ~Reached("check_auth")
        /\ (EnvelopeValid /\ ~TokenMatches) =>
              /\ hreply.code = FORBIDDEN
              /\ \A name \in MethodCalls : ~Reached(name)
        /\ (EnvelopeValid /\ TokenMatches /\ ~KnownMethod) => hreply.code = BAD_REQUEST
        /\ (EnvelopeValid /\ TokenMatches /\ KnownMethod /\ ~ArgumentsValid) =>
              hreply.code = INVALID_REQUEST
        /\ (EnvelopeValid /\ TokenMatches /\ KnownMethod /\ ArgumentsValid /\ LookupsAnswered) =>
              hreply.code = OK

\* C1: method_handler applies envelope validation (422), check_auth (403),
\* method routing (400) and argument validation (422) in this order and the
\* first failing check decides the status, otherwise 200; an invalid envelope
\* never reaches check_auth and a bad token never reaches a method.
C1_FirstFailingCheckDecides == ChecksInOrder(FALSE)

\* the order of C1 holds in every answer that is not a 500
OrderWhenNothingRaises == ChecksInOrder(TRUE)

\* a valid envelope without account and with a token that matches nothing is
\* answered 500: check_auth left with the TypeError of None + login
AuthRaisesWithoutAccount ==
    (Answered /\ EnvelopeValid /\ Supplied("error") = None /\ ~TokenMatches
        /\ Supplied("account") = None /\ Supplied("login") # AdminLogin)
        => hreply.code = INTERNAL_ERROR /\ hcalls = <<"MethodRequest", "check_auth">>

\* the envelope has declared keys only, supplies login, token, arguments (an
\* object) and method (a str), and its token matches
AuthenticatedEnvelope ==
    /\ Answered
    /\ DOMAIN AsMapping(hreq.body) \subseteq DeclaredSet("MethodRequest")
    /\ {"login", "token", "arguments", "method"} \subseteq DOMAIN AsMapping(hreq.body)
    /\ Supplied("login").type = "str"
    /\ Supplied("account").type = "str"
    /\ Supplied("arguments").type = "dict"
    /\ Supplied("method").type = "str"
    /\ TokenMatches

\* C2: an authenticated envelope that supplies login, token, arguments and
\* method is answered 400 whenever its method is a string other than
\* online_score and clients_interests, the empty string included.
C2_UnknownMethodIs400 ==
    (AuthenticatedEnvelope /\ ~KnownMethod) => hreply.code = BAD_REQUEST

\* a non-empty unknown method is answered 400
UnknownNameIs400 ==
    (AuthenticatedEnvelope /\ ~KnownMethod /\ Supplied("method") # EmptyStr)
        => hreply.code = BAD_REQUEST

\* the empty method is answered 422 by the envelope schema, before routing
EmptyMethodIs422 ==
    (AuthenticatedEnvelope /\ Supplied("method") = EmptyStr)
        => hreply.code = INVALID_REQUEST /\ hcalls = <<"MethodRequest">>

\* an authenticated clients_interests request with valid arguments, one of
\* whose client ids the store answers with a miss
InterestsMiss ==
    /\ Answered
    /\ EnvelopeValid
    /\ ~(TheEnvelope.error.kind = "input" /\ Truthy(TheEnvelope.error.value))
    /\ check_auth(TheEnvelope, now) = "true"
    /\ Supplied("method") = ClientsInterestsName
    /\ ArgumentsValid
    /\ istore.up
    /\ \E i \in 1..Len(client_ids_of(TheArguments)) :
          client_ids_of(TheArguments)[i].text \notin istore.ids

\* C10: when the store misses one of the client ids of an authenticated
\* clients_interests request with valid arguments, the request fails: the
\* status is not 200, no interests mapping (partial or whole) is returned, and
\* the miss is not turned into the 400 of an unknown method.
C10_MissFailsRequest ==
    InterestsMiss =>
        /\ hreply.code \notin {OK, BAD_REQUEST}
        /\ hreply.key = "error"
        /\ hreply.payload.kind # "interests"

\* a request for two ids of which the store holds the first only: the first
\* lookup was answered, the second missed, and the answer is an error
C10_Witness ==
    /\ InterestsMiss
    /\ Len(client_ids_of(TheArguments)) = 2
    /\ client_ids_of(TheArguments)[1].text \in istore.ids
    /\ hcalls = <<"MethodRequest", "check_auth", "clients_interests",
                  "get_interests", "get_interests">>
    /\ hreply.code = INTERNAL_ERROR

(***************************************************************************)
(* Properties of the transport boundary                                    *)
(***************************************************************************)
\* a POST to /method has been answered
AnsweredMethod == hpc = "responded" /\ hreq.path \in router

\* the body was JSON, and an empty object or an empty list
EmptyBody == hreq.parsed /\ hreq.body.type \in {"dict", "list"} /\ ~Truthy(hreq.body)

\* the answer is the success envelope {"response": .., "code": 200}
SuccessEnvelope == hreply.code = OK /\ hreply.key = "response"

\* C11: a POST to /method with an empty body (such as {}) is answered 422 and
\* one whose body is not parseable JSON is answered 400; neither is answered
\* with a 200 success envelope.
C11_EmptyBodyIs422 ==
    AnsweredMethod =>
        /\ EmptyBody => hreply.code = INVALID_REQUEST /\ ~SuccessEnvelope
        /\ ~hreq.parsed => hreply.code = BAD_REQUEST /\ ~SuccessEnvelope

\* a body that json.loads rejects is answered 400 with the default error text
UnparseableIs400 ==
    (AnsweredMethod /\ ~hreq.parsed) =>
        /\ hreply.code = BAD_REQUEST
        /\ hreply.key = "error"
        /\ hreply.payload.kind = "default"

\* an empty body never reaches method_handler: `if request:` is false, code
\* keeps its initial OK and the answer is {"response": {}, "code": 200}
EmptyBodyIs200 ==
    (AnsweredMethod /\ EmptyBody) =>
        /\ SuccessEnvelope
        /\ hreply.payload.kind = "empty"
        /\ hcalls = <<>>

(***************************************************************************)
(* Properties of the authenticator                                         *)
(***************************************************************************)
\* an envelope of declared keys that passes MethodRequest validation
ValidatedEnvelope ==
    /\ Answered
    /\ DOMAIN AsMapping(hreq.body) \subseteq DeclaredSet("MethodRequest")
    /\ EnvelopeValid

\* check_auth answers as the documentation says, and a mismatch ends in 403
AuthAsDocumented(auth) ==
    /\ auth = (IF TokenMatches THEN "true" ELSE "false")
    /\ ~TokenMatches => hreply.code = FORBIDDEN /\ hreply.key = "error"

\* C12: for every envelope that passes MethodRequest validation (account may
\* be absent, login and token may be empty) check_auth returns true exactly
\* when the token equals the expected digest and false for every other token,
\* the empty one included; a mismatch ends in 403, never in 200.
C12_AuthFailsClosed ==
    ValidatedEnvelope => AuthAsDocumented(check_auth(TheEnvelope, now))

\* with account and login both strings, check_auth is as documented
AuthWithAccount ==
    (ValidatedEnvelope /\ Supplied("account").type = "str" /\ Supplied("login").type = "str")
        => AuthAsDocumented(check_auth(TheEnvelope, now))

\* no answer to a token that does not match is a success
MismatchNever200 == (ValidatedEnvelope /\ ~TokenMatches) => hreply.code # OK

(***************************************************************************)
(* Frame of a request whose arguments do not validate                      *)
(***************************************************************************)
\* an authenticated request for a known method whose arguments end with a
\* ValidationError or a ConstrainError
ArgumentsRejected ==
    /\ ValidatedEnvelope
    /\ check_auth(TheEnvelope, now) = "true"
    /\ KnownMethod
    /\ ~TheArguments.raised
    /\ EnvelopeError(TheArguments)

\* the context holds nothing a method puts there
ContextUntouched == hctx.keys \cap {"has", "nclients"} = {}

\* C13: when the arguments of a method fail validation the request has no
\* effect besides the 422 answer: the context handed to method_handler is left
\* as it was and neither get_score nor get_interests (nor the store behind
\* them) is invoked, for both methods and for admin and non-admin callers.
C13_RejectedArgumentsNoEffect ==
    ArgumentsRejected =>
        /\ hreply.code = INVALID_REQUEST
        /\ ContextUntouched
        /\ ~Reached("get_score")
        /\ ~Reached("get_interests")

\* rejected arguments are answered 422 with the message of their error
RejectedIs422 ==
    ArgumentsRejected =>
        /\ hreply.code = INVALID_REQUEST
        /\ hreply.key = "error"
        /\ hreply.payload.kind \in {"message", "constrain"}

\* what the methods do all the same: update_context runs before the error is
\* looked at, and online_score calls get_score for every caller but admin
RejectedStillActs ==
    ArgumentsRejected =>
        /\ ~ContextUntouched
        /\ Reached("get_score") <=>
              (Supplied("method") = OnlineScoreName /\ Supplied("login") # AdminLogin)
        /\ ~Reached("get_interests")

(***************************************************************************)
(* Input keys that are no declared field                                   *)
(***************************************************************************)
\* keyword data without the keys that are no declared field of cls
Declared(cls, data) == [k \in DOMAIN data \cap DeclaredSet(cls) |-> data[k]]

\* the request body without undeclared keys, in the envelope and in the
\* arguments of a known method
DeclaredBody(body) ==
    LET m == Declared("MethodRequest", AsMapping(body))
        routed == /\ {"method", "arguments"} \subseteq DOMAIN m
                  /\ m["method"].type = "str"
                  /\ m["method"].text \in MethodNames
                  /\ m["arguments"].type = "dict"
    IN  ToDict([k \in DOMAIN m |->
                  IF routed /\ k = "arguments"
                  THEN ToDict(Declared(arguments_class(m["method"].text), AsMapping(m[k])))
                  ELSE m[k]])

\* the status do_POST answers with for what method_handler returns or raises
StatusOf(r) == IF r.raised # "" THEN INTERNAL_ERROR ELSE r.code

\* two instances agree on the validation outcome and on the fields set
SameOutcome(a, b) ==
    /\ a.raised = b.raised
    /\ a.error = b.error
    /\ a.errors = b.errors
    /\ a.fields_set = b.fields_set

\* C14: keys that are no declared field of a schema never influence
\* validation: with or without them the validation outcome and the set of
\* fields reported as set are the same, and so is the status method_handler
\* returns for the request.
C14_UndeclaredKeysInert ==
    Answered =>
        /\ SameOutcome(TheEnvelope,
                       BaseModel_init("MethodRequest",
                                      Declared("MethodRequest", AsMapping(hreq.body)), now))
        /\ hreply.code = StatusOf(method_handler(DeclaredBody(hreq.body), NewContext, istore, now))

\* the same of an instance built on its own
UndeclaredKeysInertInstance ==
    vpc = "built" => SameOutcome(vobj, BaseModel_init(vcls, Declared(vcls, vdata), now))

\* undeclared keys leave the verdict on every declared field as it is
UndeclaredKeysKeepErrors ==
    vpc = "built" =>
        LET plain == BaseModel_init(vcls, Declared(vcls, vdata), now)
        IN  /\ vobj.raised = plain.raised
            /\ vobj.errors = plain.errors
            /\ vobj.validated = plain.validated

\* what an undeclared key does when it names a class member that is no field
\* (error, root_validate, is_admin, _abc_impl): it is reported as set, and a
\* key named error becomes the instance's error
UndeclaredKeysLeak ==
    (vpc = "built" /\ vobj.validated) =>
        LET plain == BaseModel_init(vcls, Declared(vcls, vdata), now)
        IN  /\ vobj.fields_set = plain.fields_set \cup (SetKeys(vdata) \cap Members(vcls))
            /\ "error" \in SetKeys(vdata) => vobj.error = [kind |-> "input", value |-> vdata["error"]]

\* a request that validates and carries a truthy error key, in the envelope
\* or in the arguments, is answered 500 where the same request without the
\* key is not: error.get_message() is called on the input's own value
ErrorKeyIs500 ==
    (Answered /\ EnvelopeValid /\ Truthy(Supplied("error")))
        => /\ hreply.code = INTERNAL_ERROR
           /\ hcalls = <<"MethodRequest">>

====
